---- MODULE Spec2Model ----
(***************************************************************************)
(* EvmModule of the Hardhat Network provider                               *)
(* (packages/hardhat-core/src/internal/hardhat-network/provider/modules/   *)
(* evm.ts): the dispatcher processRequest, the per-method parameter steps  *)
(* and the per-method actions, run against a HardhatNode.                  *)
(*                                                                         *)
(* JSON values of a params list are tagged records (Num, Str, Arr);        *)
(* strings are sequences of one-character strings so that the decimal and  *)
(* the hex-quantity encodings are computed, not assumed.  Every timestamp  *)
(* and increment is an integer inside the safe range of `new BN(number)`,  *)
(* where BN arithmetic is integer arithmetic.                              *)
(*                                                                         *)
(* The HardhatNode, validateParams / rpcQuantity and numberToRpcQuantity   *)
(* are imported by evm.ts from sibling files; they are modelled from the   *)
(* interface the specification requires of them.                           *)
(*                                                                         *)
(* Every specification follows the invocations of processRequest from     *)
(* await to await.  In Spec, SpecMining, SpecTime and SpecFailing the      *)
(* caller waits for the result of a request before it sends the next, as   *)
(* the module relies on it to do; in SpecAsync it does not.                *)
(***************************************************************************)
EXTENDS Integers, Sequences, FiniteSets, TLC

VARIABLES node, last, before, calls, result, issued, marks, stale, increments,
          tasks, overlapped

vars ==
    <<node, last, before, calls, result, issued, marks, stale, increments,
      tasks, overlapped>>

----------------------------------------------------------------------------
(* Bounds of the model *)

\* timestamp of the genesis block of the modelled chain
BaseTime == 8
\* largest iterations argument of evm_mineMultiple
MaxIterations == 2
\* snapshot ids issued in one run
MaxSnapshots == 2
\* calls of processRequest made while the promise of another is pending
MaxOverlaps == 1
\* largest cumulative time offset below 0
MaxBehind == 5
\* largest cumulative time offset
MaxOffset == 5
\* largest cumulative time offset of the runs that add up increments
MaxTotal == 16
\* the snapshot id the node issues first in a run; it has issued the
\* smaller ids before and has dropped those snapshots since
FirstSnapshotId == 9

\* longest timestamps array of evm_mineMultiple
MaxTimestamps == MaxIterations
\* request timestamps range up to BaseTime + MaxAhead, which leaves room for
\* a strictly increasing array of the longest length
MaxAhead == MaxIterations
\* blocks mined on top of the genesis block: room for the largest batch
MaxBlocks == MaxIterations

----------------------------------------------------------------------------
(* JSON values *)

Num(n) == [type |-> "number", num |-> n, str |-> <<>>, arr |-> <<>>]
Str(s) == [type |-> "string", num |-> 0, str |-> s, arr |-> <<>>]
Arr(a) == [type |-> "array", num |-> 0, str |-> <<>>, arr |-> a]
\* element of an array value
Elem(n) == [type |-> "number", num |-> n, str |-> <<>>]

\* an element that is a string, not a number
StrElem(s) == [type |-> "string", num |-> 0, str |-> s]

DecimalDigits == <<"0", "1", "2", "3", "4", "5", "6", "7", "8", "9">>

IsDecimalDigit(c) == \E i \in 1..10 : DecimalDigits[i] = c

RECURSIVE DecimalValue(_)
DecimalValue(s) ==
    IF s = <<>> THEN 0
    ELSE 10 * DecimalValue(SubSeq(s, 1, Len(s) - 1))
         + (CHOOSE i \in 1..10 : DecimalDigits[i] = s[Len(s)]) - 1

\* new BN(ts) of an element of the timestamps array: the number itself, or
\* the number a string of decimal digits is the numeral of
BN(ts) == IF ts.type = "number" THEN ts.num ELSE DecimalValue(ts.str)

Digits == <<"0", "1", "2", "3", "4", "5", "6", "7", "8", "9",
            "a", "b", "c", "d", "e", "f">>

RECURSIVE NatToString(_, _)
NatToString(n, base) ==
    IF n < base THEN <<Digits[n + 1]>>
    ELSE NatToString(n \div base, base) \o <<Digits[(n % base) + 1]>>

\* Number.prototype.toString() / BN.prototype.toString() of an integer
toString(n) ==
    IF n < 0 THEN <<"-">> \o NatToString(0 - n, 10) ELSE NatToString(n, 10)

\* numberToRpcQuantity of ../output: "0x" followed by the hex digits
numberToRpcQuantity(n) == <<"0", "x">> \o NatToString(n, 16)

DigitValue(c) == (CHOOSE i \in 1..16 : Digits[i] = c) - 1

IsHexDigit(c) == \E i \in 1..16 : Digits[i] = c

RECURSIVE HexValue(_)
HexValue(s) ==
    IF s = <<>> THEN 0
    ELSE 16 * HexValue(SubSeq(s, 1, Len(s) - 1)) + DigitValue(s[Len(s)])

\* the rpcQuantity codec of ../input accepts "0x0" or "0x" followed by hex
\* digits without a leading zero
IsRpcQuantity(v) ==
    /\ v.type = "string"
    /\ Len(v.str) >= 3
    /\ v.str[1] = "0" /\ v.str[2] = "x"
    /\ \A i \in 3..Len(v.str) : IsHexDigit(v.str[i])
    /\ (v.str[3] = "0" => Len(v.str) = 3)

rpcQuantity(v) == HexValue(SubSeq(v.str, 3, Len(v.str)))

----------------------------------------------------------------------------
(* validateParams of ../input: the params list must have exactly one value *)
(* per expected type, each of that type; rpcQuantity values are decoded.   *)

Matches(v, ty) ==
    CASE ty = "number" -> v.type = "number"
      [] ty = "array" -> v.type = "array"
      [] ty = "rpcQuantity" -> IsRpcQuantity(v)
      [] OTHER -> FALSE

Decode(v, ty) == IF ty = "rpcQuantity" THEN Num(rpcQuantity(v)) ELSE v

validateParams(params, types) ==
    IF /\ Len(params) = Len(types)
       /\ \A i \in 1..Len(types) : Matches(params[i], types[i])
    THEN [ok |-> TRUE,
          args |-> [i \in 1..Len(types) |-> Decode(params[i], types[i])]]
    ELSE [ok |-> FALSE, args |-> <<>>]

----------------------------------------------------------------------------
(* Results of a request *)

NoValue == [type |-> "none", str |-> <<>>, bool |-> FALSE]
StringValue(s) == [type |-> "string", str |-> s, bool |-> FALSE]
BoolValue(b) == [type |-> "boolean", str |-> <<>>, bool |-> b]

\* no result yet
NoResult == [status |-> "none", value |-> NoValue]
Ok(v) == [status |-> "ok", value |-> v]
InvalidInputError == [status |-> "InvalidInput", value |-> NoValue]
MethodNotFoundError == [status |-> "MethodNotFound", value |-> NoValue]
\* an error thrown by a node call, which the module does not catch
NodeError == [status |-> "NodeError", value |-> NoValue]

\* one call of a HardhatNode method, with its argument and its return value
Call(op, arg, ret) == [op |-> op, arg |-> arg, ret |-> ret]

\* what a handler leaves behind: the node, the node calls made, the result
Outcome(n, cs, r) == [node |-> n, calls |-> cs, result |-> r]

----------------------------------------------------------------------------
(* The HardhatNode, as far as EvmModule uses it.  The chain is the sequence *)
(* of its blocks' header timestamps, the head block last.                  *)

HeadTimestamp(chain) == chain[Len(chain)]

\* getLatestBlock().header.timestamp
getLatestBlock(n) == HeadTimestamp(n.chain)

\* pins the timestamp of the next mined block
setNextBlockTimestamp(n, timestamp) ==
    [n EXCEPT !.nextBlockTimestamp = timestamp]

\* adds increment to the cumulative time offset
increaseTime(n, increment) == [n EXCEPT !.timeIncrement = @ + increment]

getTimeIncrement(n) == n.timeIncrement

\* The node may fail: failAfter is the number of mineEmptyBlock calls that
\* still succeed before one throws, -1 when none will throw.
mineEmptyBlockThrows(n) == n.failAfter = 0

\* a call that throws mines nothing; the fault is over with it
mineEmptyBlockThrown(n) == [n EXCEPT !.failAfter = -1]

\* The block gets the given timestamp; with the sentinel 0 it gets the
\* pinned timestamp if there is one and the node's time (now plus the time
\* offset) otherwise.  Mining a block uses up the pinned timestamp.
mineEmptyBlock(n, timestamp, now) ==
    LET blockTimestamp ==
            IF timestamp # 0 THEN timestamp
            ELSE IF n.nextBlockTimestamp # 0 THEN n.nextBlockTimestamp
            ELSE now + n.timeIncrement
    IN  [n EXCEPT !.chain = Append(@, blockTimestamp),
                  !.nextBlockTimestamp = 0,
                  !.failAfter = IF @ > 0 THEN @ - 1 ELSE @]

Snapshot(n) ==
    [id |-> n.nextSnapshotId, chain |-> n.chain,
     nextBlockTimestamp |-> n.nextBlockTimestamp,
     timeIncrement |-> n.timeIncrement]

\* saves the whole state under the next id; ids are never issued twice
takeSnapshot(n) ==
    [node |-> [n EXCEPT !.snapshots = Append(@, Snapshot(n)),
                        !.nextSnapshotId = @ + 1],
     id |-> n.nextSnapshotId]

SnapshotIndex(n, id) ==
    IF \E i \in 1..Len(n.snapshots) : n.snapshots[i].id = id
    THEN CHOOSE i \in 1..Len(n.snapshots) : n.snapshots[i].id = id
    ELSE 0

\* restores the state saved under id and drops that snapshot and every
\* later one; an id that is not (or no longer) saved changes nothing
revertToSnapshot(n, id) ==
    LET i == SnapshotIndex(n, id)
    IN  IF i = 0 THEN [node |-> n, ok |-> FALSE]
        ELSE [node |-> [n EXCEPT
                          !.chain = n.snapshots[i].chain,
                          !.nextBlockTimestamp =
                              n.snapshots[i].nextBlockTimestamp,
                          !.timeIncrement = n.snapshots[i].timeIncrement,
                          !.snapshots = SubSeq(@, 1, i - 1)],
              ok |-> TRUE]

----------------------------------------------------------------------------
(* An invocation of processRequest.  processRequest and the actions are    *)
(* async functions: an invocation runs at once up to its first await, node *)
(* call included, and each time it is resumed it runs from the await it    *)
(* stands at to the next one, or to its return or throw.  Nothing in       *)
(* evm.ts keeps another invocation from running in between.                *)
(*                                                                         *)
(* A frame is an invocation between two such runs: pc is "start" before    *)
(* the first run, "await<line>" at the await of that line of evm.ts,       *)
(* "done" after the return or throw; args are the values of the params     *)
(* step, it the loop index, awaited the value the awaited node call        *)
(* delivers, thrown whether that call throws instead.  before (the node at *)
(* the invocation), calls (the node calls made) and result record what     *)
(* the invocation did.                                                     *)

NoNode ==
    [chain |-> <<>>, nextBlockTimestamp |-> 0, timeIncrement |-> 0,
     snapshots |-> <<>>, nextSnapshotId |-> 0, failAfter |-> -1]

Frame(method, params, n) ==
    [pc |-> "start", method |-> method, params |-> params, args |-> <<>>,
     it |-> 0, awaited |-> 0, thrown |-> FALSE, before |-> n,
     calls |-> <<>>, result |-> NoResult]

\* no invocation
IdleFrame == [Frame("", <<>>, NoNode) EXCEPT !.pc = "idle"]

\* the node call has been made, on the node that is now n; the invocation
\* waits at pc for what the call delivers
Await(n, f, pc, call, awaited) ==
    [node |-> n,
     frame |-> [f EXCEPT !.pc = pc, !.calls = Append(@, call),
                         !.awaited = awaited]]

\* the invocation returns or throws r
Settle(n, f, r) ==
    [node |-> n, frame |-> [f EXCEPT !.pc = "done", !.result = r]]

\* await this._node.mineEmptyBlock(timestamp), which may throw
AwaitMine(n, f, pc, timestamp, now) ==
    IF mineEmptyBlockThrows(n)
    THEN [node |-> mineEmptyBlockThrown(n),
          frame |-> [f EXCEPT !.pc = pc,
                              !.calls = Append(@, Call("mineEmptyBlock",
                                                       timestamp, -1)),
                              !.thrown = TRUE]]
    ELSE Await(mineEmptyBlock(n, timestamp, now), f, pc,
               Call("mineEmptyBlock", timestamp, 0), 0)

----------------------------------------------------------------------------
(* evm_setNextBlockTimestamp *)

_setNextBlockTimestampParams(params) == validateParams(params, <<"number">>)

\* the timestamp is checked against the pinned timestamp too, when there is
\* one
_setNextBlockTimestampAction_pinned(n, f) ==
    LET timestamp == f.args[1].num
    IN  CASE f.pc = "start" ->
               Await(n, f, "await52",
                     Call("getLatestBlock", 0, getLatestBlock(n)),
                     getLatestBlock(n))
          [] f.pc = "await52" ->
               LET previous == IF n.nextBlockTimestamp > f.awaited
                               THEN n.nextBlockTimestamp ELSE f.awaited
                   increment == timestamp - previous
               IN  IF increment <= 0
                   THEN Settle(n, f, InvalidInputError)
                   ELSE Await(setNextBlockTimestamp(n, timestamp), f,
                              "await62",
                              Call("setNextBlockTimestamp", timestamp, 0), 0)
          [] f.pc = "await62" ->
               Settle(n, f, Ok(StringValue(toString(timestamp))))

\* lt instead of lte: a timestamp equal to the head's is let through
_setNextBlockTimestampAction_lt(n, f) ==
    LET timestamp == f.args[1].num
    IN  CASE f.pc = "start" ->
               Await(n, f, "await52",
                     Call("getLatestBlock", 0, getLatestBlock(n)),
                     getLatestBlock(n))
          [] f.pc = "await52" ->
               LET increment == timestamp - f.awaited
               IN  IF increment < 0
                   THEN Settle(n, f, InvalidInputError)
                   ELSE Await(setNextBlockTimestamp(n, timestamp), f,
                              "await62",
                              Call("setNextBlockTimestamp", timestamp, 0), 0)
          [] f.pc = "await62" ->
               Settle(n, f, Ok(StringValue(toString(timestamp))))

_setNextBlockTimestampAction(n, f) ==
    LET timestamp == f.args[1].num
    IN  CASE f.pc = "start" ->
               \* const latestBlock = await this._node.getLatestBlock()
               Await(n, f, "await52",
                     Call("getLatestBlock", 0, getLatestBlock(n)),
                     getLatestBlock(n))
          [] f.pc = "await52" ->
               LET increment == timestamp - f.awaited
               IN  IF increment <= 0
                   THEN Settle(n, f, InvalidInputError)
                   ELSE \* await this._node.setNextBlockTimestamp(...)
                        Await(setNextBlockTimestamp(n, timestamp), f,
                              "await62",
                              Call("setNextBlockTimestamp", timestamp, 0), 0)
          [] f.pc = "await62" ->
               Settle(n, f, Ok(StringValue(toString(timestamp))))

(* evm_increaseTime *)

_increaseTimeParams(params) == validateParams(params, <<"number">>)

\* returns the increment of the request, not the total read back
_increaseTimeAction_own(n, f) ==
    LET increment == f.args[1].num
    IN  CASE f.pc = "start" ->
               Await(increaseTime(n, increment), f, "await73",
                     Call("increaseTime", increment, 0), 0)
          [] f.pc = "await73" ->
               Await(n, f, "await74",
                     Call("getTimeIncrement", 0, getTimeIncrement(n)),
                     getTimeIncrement(n))
          [] f.pc = "await74" ->
               Settle(n, f, Ok(StringValue(toString(increment))))

_increaseTimeAction(n, f) ==
    LET increment == f.args[1].num
    IN  CASE f.pc = "start" ->
               \* await this._node.increaseTime(new BN(increment))
               Await(increaseTime(n, increment), f, "await73",
                     Call("increaseTime", increment, 0), 0)
          [] f.pc = "await73" ->
               \* const totalIncrement = await this._node.getTimeIncrement()
               Await(n, f, "await74",
                     Call("getTimeIncrement", 0, getTimeIncrement(n)),
                     getTimeIncrement(n))
          [] f.pc = "await74" ->
               Settle(n, f, Ok(StringValue(toString(f.awaited))))

(* evm_mine *)

\* without the defaulting of an empty params list
_mineParams_noDefault(params) == validateParams(params, <<"number">>)

_mineParams(params) ==
    validateParams(IF Len(params) = 0 THEN <<Num(0)>> ELSE params,
                   <<"number">>)

\* the head block is not read: the timestamp is mined as it comes
_mineAction_noRead(n, f, now) ==
    LET timestamp == f.args[1].num
    IN  CASE f.pc = "start" ->
               AwaitMine(n, f, "await103", timestamp, now)
          [] f.pc = "await103" ->
               IF f.thrown THEN Settle(n, f, NodeError)
               ELSE Settle(n, f, Ok(StringValue(numberToRpcQuantity(0))))

\* lt instead of lte: a timestamp equal to the head's is let through
_mineAction_lt(n, f, now) ==
    LET timestamp == f.args[1].num
    IN  CASE f.pc = "start" ->
               IF timestamp # 0
               THEN Await(n, f, "await92",
                          Call("getLatestBlock", 0, getLatestBlock(n)),
                          getLatestBlock(n))
               ELSE AwaitMine(n, f, "await103", timestamp, now)
          [] f.pc = "await92" ->
               LET increment == timestamp - f.awaited
               IN  IF increment < 0
                   THEN Settle(n, f, InvalidInputError)
                   ELSE AwaitMine(n, f, "await103", timestamp, now)
          [] f.pc = "await103" ->
               IF f.thrown THEN Settle(n, f, NodeError)
               ELSE Settle(n, f, Ok(StringValue(numberToRpcQuantity(0))))

_mineAction(n, f, now) ==
    LET timestamp == f.args[1].num
    IN  CASE f.pc = "start" ->
               IF timestamp # 0
               THEN \* const latestBlock = await this._node.getLatestBlock()
                    Await(n, f, "await92",
                          Call("getLatestBlock", 0, getLatestBlock(n)),
                          getLatestBlock(n))
               ELSE \* await this._node.mineEmptyBlock(new BN(timestamp))
                    AwaitMine(n, f, "await103", timestamp, now)
          [] f.pc = "await92" ->
               LET increment == timestamp - f.awaited
               IN  IF increment <= 0
                   THEN Settle(n, f, InvalidInputError)
                   ELSE AwaitMine(n, f, "await103", timestamp, now)
          [] f.pc = "await103" ->
               IF f.thrown THEN Settle(n, f, NodeError)
               ELSE Settle(n, f, Ok(StringValue(numberToRpcQuantity(0))))

(* evm_mineMultiple *)

\* an empty params list is defaulted to one iteration, as evm_mine mines
\* one block
_mineMultipleParams_one(params) ==
    LET p1 == IF Len(params) = 0 THEN <<Num(1)>> ELSE params
        p2 == IF Len(params) <= 1 THEN Append(p1, Arr(<<>>)) ELSE p1
    IN  validateParams(p2, <<"number", "array">>)

_mineMultipleParams(params) ==
    LET p1 == IF Len(params) = 0 THEN <<Num(0)>> ELSE params
        p2 == IF Len(params) <= 1 THEN Append(p1, Arr(<<>>)) ELSE p1
    IN  validateParams(p2, <<"number", "array">>)

\* neq instead of lt: a decreasing pair passes
increasingSequence_neq(timestampsBN) ==
    \A idx \in 1..Len(timestampsBN) :
        idx = Len(timestampsBN) \/ timestampsBN[idx] # timestampsBN[idx + 1]

\* lte instead of lt: equal neighbours pass
increasingSequence_lte(timestampsBN) ==
    \A idx \in 1..Len(timestampsBN) :
        idx = Len(timestampsBN) \/ timestampsBN[idx] <= timestampsBN[idx + 1]

\* timestampsBN.every((ts, idx, arr) => idx = last or ts < arr[idx + 1])
increasingSequence(timestampsBN) ==
    \A idx \in 1..Len(timestampsBN) :
        idx = Len(timestampsBN) \/ timestampsBN[idx] < timestampsBN[idx + 1]

\* the iterations check: lt instead of lte lets zero iterations through
invalidIterations_lt(iterations) == iterations < 0

\* if (iterations <= 0) throw
invalidIterations(iterations) == iterations <= 0

\* timestamps.map((ts) => new BN(ts))
TimestampsBN(timestamps) == [i \in 1..Len(timestamps) |-> BN(timestamps[i])]

\* the loop runs while it <= iterations: one block too many
MineLoop_lte(n, f, now) ==
    LET iterations == f.args[1].num
        timestampsBN == TimestampsBN(f.args[2].arr)
        it == IF f.pc = "await167" THEN f.it + 1 ELSE 0
        newBlockTimestampBN ==
            IF it < Len(timestampsBN) THEN timestampsBN[it + 1] ELSE 0
    IN  IF f.pc = "await167" /\ f.thrown
        THEN Settle(n, f, NodeError)
        ELSE IF it <= iterations
        THEN AwaitMine(n, [f EXCEPT !.it = it], "await167",
                       newBlockTimestampBN, now)
        ELSE Settle(n, f, Ok(StringValue(numberToRpcQuantity(0))))

\* the loop catches what a node call throws and goes on with the next
\* iteration
MineLoop_continue(n, f, now) ==
    LET iterations == f.args[1].num
        timestampsBN == TimestampsBN(f.args[2].arr)
        it == IF f.pc = "await167" THEN f.it + 1 ELSE 0
        newBlockTimestampBN ==
            IF it < Len(timestampsBN) THEN timestampsBN[it + 1] ELSE 0
    IN  IF it < iterations
        THEN AwaitMine(n, [f EXCEPT !.it = it, !.thrown = FALSE], "await167",
                       newBlockTimestampBN, now)
        ELSE Settle(n, f, Ok(StringValue(numberToRpcQuantity(0))))

\* the for loop of _mineMultipleAction, from where the invocation stands:
\* at its entry, or at the await of the mineEmptyBlock call of iteration
\* f.it; a call that throws ends the loop and the invocation
MineLoop(n, f, now) ==
    LET iterations == f.args[1].num
        timestampsBN == TimestampsBN(f.args[2].arr)
        it == IF f.pc = "await167" THEN f.it + 1 ELSE 0
        newBlockTimestampBN ==
            IF it < Len(timestampsBN) THEN timestampsBN[it + 1] ELSE 0
    IN  IF f.pc = "await167" /\ f.thrown
        THEN Settle(n, f, NodeError)
        ELSE IF it < iterations
        THEN \* await this._node.mineEmptyBlock(newBlockTimestampBN)
             AwaitMine(n, [f EXCEPT !.it = it], "await167",
                       newBlockTimestampBN, now)
        ELSE Settle(n, f, Ok(StringValue(numberToRpcQuantity(0))))

\* lt instead of lte: a first timestamp equal to the head's is let through
_mineMultipleAction_lt(n, f, now) ==
    LET iterations == f.args[1].num
        timestamps == f.args[2].arr
        timestampsBN == TimestampsBN(timestamps)
    IN  CASE f.pc = "start" ->
               IF Len(timestamps) # 0
               THEN IF Len(timestamps) > iterations
                    THEN Settle(n, f, InvalidInputError)
                    ELSE Await(n, f, "await136",
                               Call("getLatestBlock", 0, getLatestBlock(n)),
                               getLatestBlock(n))
               ELSE IF invalidIterations(iterations)
               THEN Settle(n, f, InvalidInputError)
               ELSE MineLoop(n, f, now)
          [] f.pc = "await136" ->
               LET latestBlockTimestampBN == f.awaited
               IN  IF timestampsBN[1] < latestBlockTimestampBN
                   THEN Settle(n, f, InvalidInputError)
                   ELSE IF ~increasingSequence(timestampsBN)
                   THEN Settle(n, f, InvalidInputError)
                   ELSE IF invalidIterations(iterations)
                   THEN Settle(n, f, InvalidInputError)
                   ELSE MineLoop(n, f, now)
          [] f.pc = "await167" -> MineLoop(n, f, now)

_mineMultipleAction(n, f, now) ==
    LET iterations == f.args[1].num
        timestamps == f.args[2].arr
        timestampsBN == TimestampsBN(timestamps)
    IN  CASE f.pc = "start" ->
               IF Len(timestamps) # 0
               THEN IF Len(timestamps) > iterations
                    THEN Settle(n, f, InvalidInputError)
                    ELSE \* const latestBlock =
                         \*     await this._node.getLatestBlock()
                         Await(n, f, "await136",
                               Call("getLatestBlock", 0, getLatestBlock(n)),
                               getLatestBlock(n))
               ELSE IF invalidIterations(iterations)
               THEN Settle(n, f, InvalidInputError)
               ELSE MineLoop(n, f, now)
          [] f.pc = "await136" ->
               LET latestBlockTimestampBN == f.awaited
               IN  IF timestampsBN[1] <= latestBlockTimestampBN
                   THEN Settle(n, f, InvalidInputError)
                   ELSE IF ~increasingSequence(timestampsBN)
                   THEN Settle(n, f, InvalidInputError)
                   ELSE IF invalidIterations(iterations)
                   THEN Settle(n, f, InvalidInputError)
                   ELSE MineLoop(n, f, now)
          [] f.pc = "await167" -> MineLoop(n, f, now)

(* evm_revert *)

\* validates a number, as the other params steps do, not a hex quantity
_revertParams_number(params) == validateParams(params, <<"number">>)

_revertParams(params) == validateParams(params, <<"rpcQuantity">>)

\* an id the node does not hold is reported as an error
_revertAction_throws(n, f) ==
    LET snapshotId == f.args[1].num
        r == revertToSnapshot(n, snapshotId)
    IN  CASE f.pc = "start" ->
               Await(r.node, f, "await179",
                     Call("revertToSnapshot", snapshotId,
                          IF r.ok THEN 1 ELSE 0),
                     IF r.ok THEN 1 ELSE 0)
          [] f.pc = "await179" ->
               IF f.awaited = 1 THEN Settle(n, f, Ok(BoolValue(TRUE)))
               ELSE Settle(n, f, InvalidInputError)

_revertAction(n, f) ==
    LET snapshotId == f.args[1].num
        r == revertToSnapshot(n, snapshotId)
    IN  CASE f.pc = "start" ->
               \* return this._node.revertToSnapshot(snapshotId.toNumber())
               Await(r.node, f, "await179",
                     Call("revertToSnapshot", snapshotId,
                          IF r.ok THEN 1 ELSE 0),
                     IF r.ok THEN 1 ELSE 0)
          [] f.pc = "await179" ->
               Settle(n, f, Ok(BoolValue(f.awaited = 1)))

(* evm_snapshot *)

_snapshotParams(params) == [ok |-> TRUE, args |-> <<>>]

\* returns the zero quantity, as the mining actions do
_snapshotAction_zero(n, f) ==
    LET r == takeSnapshot(n)
    IN  CASE f.pc = "start" ->
               Await(r.node, f, "await189",
                     Call("takeSnapshot", 0, r.id), r.id)
          [] f.pc = "await189" ->
               Settle(n, f, Ok(StringValue(numberToRpcQuantity(0))))

_snapshotAction(n, f) ==
    LET r == takeSnapshot(n)
    IN  CASE f.pc = "start" ->
               \* const snapshotId = await this._node.takeSnapshot()
               Await(r.node, f, "await189",
                     Call("takeSnapshot", 0, r.id), r.id)
          [] f.pc = "await189" ->
               LET snapshotId == f.awaited
               IN  Settle(n, f,
                          Ok(StringValue(numberToRpcQuantity(snapshotId))))

----------------------------------------------------------------------------
(* The dispatcher *)

Methods == {"evm_increaseTime", "evm_setNextBlockTimestamp", "evm_mine",
            "evm_mineMultiple", "evm_revert", "evm_snapshot"}

\* the params step of the method, at the start of the invocation: the
\* values it returns, or its throw
ParamsStep(method, params) ==
    CASE method = "evm_increaseTime" -> _increaseTimeParams(params)
      [] method = "evm_setNextBlockTimestamp" ->
           _setNextBlockTimestampParams(params)
      [] method = "evm_mine" -> _mineParams(params)
      [] method = "evm_mineMultiple" -> _mineMultipleParams(params)
      [] method = "evm_revert" -> _revertParams(params)
      [] method = "evm_snapshot" -> _snapshotParams(params)

\* the action of the method, from where the invocation stands
ActionStep(n, method, f, now) ==
    CASE method = "evm_increaseTime" -> _increaseTimeAction(n, f)
      [] method = "evm_setNextBlockTimestamp" ->
           _setNextBlockTimestampAction(n, f)
      [] method = "evm_mine" -> _mineAction(n, f, now)
      [] method = "evm_mineMultiple" -> _mineMultipleAction(n, f, now)
      [] method = "evm_revert" -> _revertAction(n, f)
      [] method = "evm_snapshot" -> _snapshotAction(n, f)

\* a case of the switch: a params step that throws ends the invocation
\* before its action runs
Handle(n, method, f, now) ==
    IF f.pc = "start"
    THEN LET v == ParamsStep(method, f.params)
         IN  IF v.ok
             THEN ActionStep(n, method, [f EXCEPT !.args = v.args], now)
             ELSE Settle(n, f, InvalidInputError)
    ELSE ActionStep(n, method, f, now)

\* the switch falls to its last case instead of leaving the switch
processRequest_fallthrough(n, f, now) ==
    IF f.method \in Methods THEN Handle(n, f.method, f, now)
    ELSE Handle(n, "evm_snapshot", f, now)

\* one run of the invocation f on the node n: from its start or from the
\* await it stands at, to its next await or to its end
processRequest(n, f, now) ==
    IF f.method \in Methods THEN Handle(n, f.method, f, now)
    ELSE Settle(n, f, MethodNotFoundError)

\* the invocation run to its end with no other invocation in between
RECURSIVE Run(_, _, _)
Run(n, f, now) ==
    IF f.pc = "done" THEN Outcome(n, f.calls, f.result)
    ELSE LET r == processRequest(n, f, now)
         IN  Run(r.node, r.frame, now)

RunRequest(n, method, params, now) == Run(n, Frame(method, params, n), now)

----------------------------------------------------------------------------
(* Requests *)

UnknownMethods == {"evm_bogus", "evm_Mine"}

TimeValues == {-1, 0} \cup (BaseTime..(BaseTime + MaxAhead))

\* timestamps of a batch: the sentinel 0 and a negative one among them
BatchTimeValues == {-1, 0} \cup (BaseTime..(BaseTime + MaxAhead))

IncrementValues == {5}

\* the node's clock during the run
NowValues == {BaseTime + 1}

SeqsUpTo(S, k) == UNION {[1..m -> S] : m \in 0..k}

Elems(ts) == [i \in 1..Len(ts) |-> Elem(ts[i])]

\* params lists that fit no method taking one number
OddParams == {<<Str(<<"0", "x", "1">>)>>, <<Num(BaseTime + 1), Num(0)>>,
              <<Arr(<<>>)>>}

NumberParams == {<<>>} \cup {<<Num(t)>> : t \in TimeValues} \cup OddParams

\* a few of them, for the runs that mix all the methods
FewNumberParams ==
    {<<>>, <<Str(<<"0", "x", "1">>)>>}
    \cup {<<Num(t)>> : t \in {0, BaseTime, BaseTime + 1, BaseTime + 2}}

\* increments that add up, one of them negative
SumIncrementValues == {-5, 0, 5, 10}

SumIncreaseTimeParams ==
    {<<>>, <<Str(<<"5">>)>>} \cup {<<Num(d)>> : d \in SumIncrementValues}

IncreaseTimeParams ==
    {<<>>} \cup {<<Num(d)>> : d \in IncrementValues} \cup OddParams

BatchTimestamps ==
    {Elems(ts) : ts \in SeqsUpTo(BatchTimeValues, MaxTimestamps)}

\* timestamps arrays with an element that is a string of decimal digits
StringBatchTimestamps ==
    {<<StrElem(toString(BaseTime + 1))>>,
     <<Elem(BaseTime + 1), StrElem(toString(BaseTime + 2))>>,
     <<StrElem(toString(BaseTime))>>}

MineMultipleParams ==
    {<<>>, <<Str(<<"0", "x", "1">>)>>, <<Num(1), Num(BaseTime + 1)>>,
     <<Num(1), Arr(<<>>), Num(0)>>}
    \cup {<<Num(n), Arr(ts)>> : n \in 1..2, ts \in StringBatchTimestamps}
    \cup {<<Num(n)>> : n \in -1..MaxIterations}
    \cup {<<Num(n), Arr(ts)>> : n \in -1..MaxIterations, ts \in BatchTimestamps}

\* a few batches of each kind, for the runs that mix all the methods
FewMineMultipleParams ==
    {<<>>, <<Num(0)>>, <<Num(1)>>, <<Num(MaxIterations)>>,
     <<Num(MaxIterations), Arr(Elems(<<BaseTime + 1>>))>>,
     <<Num(1), Arr(Elems(<<BaseTime + 1, BaseTime + 2>>))>>,
     <<Num(2), Arr(Elems(<<BaseTime + 2, BaseTime + 1>>))>>}

SnapshotIds == {0} \cup (FirstSnapshotId..(FirstSnapshotId + MaxSnapshots))

RevertParams ==
    {<<>>, <<Num(1)>>, <<Str(<<"1">>)>>, <<Str(<<"0", "x", "0", "1">>)>>,
     <<Str(<<"0", "x", "1">>), Num(0)>>}
    \cup {<<Str(numberToRpcQuantity(i))>> : i \in SnapshotIds}

SnapshotParams ==
    {<<>>, <<Num(1)>>, <<Str(<<"0", "x", "1">>)>>, <<Arr(<<>>)>>,
     <<Num(0), Num(0)>>}

----------------------------------------------------------------------------
(* The state machine.  An invocation of processRequest is a frame in       *)
(* tasks; a step runs it from where it stands to its next await, node call *)
(* included, or to its end.  An invocation that has ended leaves its       *)
(* method and params in last, the node as it found it in before, the node  *)
(* calls it made in calls and its result in result, until the caller has   *)
(* taken the result.                                                       *)

Idle == [method |-> "", params |-> <<>>]

\* the invocations of processRequest that may be in flight at once
Tasks == {1, 2}

Init ==
    /\ node = [chain |-> <<BaseTime>>, nextBlockTimestamp |-> 0,
               timeIncrement |-> 0, snapshots |-> <<>>,
               nextSnapshotId |-> FirstSnapshotId, failAfter |-> -1]
    /\ last = Idle
    /\ before = node
    /\ calls = <<>>
    /\ result = NoResult
    /\ issued = <<>>
    /\ marks = <<>>
    /\ stale = {}
    /\ increments = [reverted |-> FALSE, sum |-> 0]
    /\ tasks = [t \in Tasks |-> IdleFrame]
    /\ overlapped = 0

\* issued is the history of the ids evm_snapshot has returned, each as the
\* caller decodes it from the result
ReturnedId(o) ==
    HexValue(SubSeq(o.result.value.str, 3, Len(o.result.value.str)))

NextIssued(method, o) ==
    IF o.result.status = "ok" /\ method = "evm_snapshot"
    THEN Append(issued, ReturnedId(o))
    ELSE issued

\* marks follows the snapshots since whose creation every request has been
\* a successful evm_mine or evm_mineMultiple: the id returned, the chain at
\* that moment and whether a block has been mined since.  The first other
\* request ends the watch; if it is an evm_revert of that id the mark stays,
\* as reverted, until the next request.
RevertedId(method, params) ==
    IF method = "evm_revert" /\ Len(params) = 1 /\ IsRpcQuantity(params[1])
    THEN rpcQuantity(params[1])
    ELSE -1

NextMarks(method, params, o) ==
    LET watched == SelectSeq(marks, LAMBDA m : ~m.reverted)
    IN  IF o.result.status = "ok" /\ method \in {"evm_mine", "evm_mineMultiple"}
        THEN [i \in 1..Len(watched) |-> [watched[i] EXCEPT !.mined = TRUE]]
        ELSE IF o.result.status = "ok" /\ method = "evm_snapshot"
        THEN <<[id |-> ReturnedId(o), chain |-> o.node.chain,
                mined |-> FALSE, reverted |-> FALSE]>>
        ELSE LET hit == SelectSeq(watched,
                            LAMBDA m : m.id = RevertedId(method, params))
             IN  [i \in 1..Len(hit) |-> [hit[i] EXCEPT !.reverted = TRUE]]

\* stale is the set of the ids that were issued after an id that has since
\* been reverted to with success (the later siblings of a reverted id)
NextStale(method, params, o) ==
    IF method = "evm_revert" /\ o.result = Ok(BoolValue(TRUE))
    THEN stale \cup
         {issued[j] : j \in {k \in 1..Len(issued) :
                               \E i \in 1..Len(issued) :
                                   /\ issued[i] = RevertedId(method, params)
                                   /\ i < k}}
    ELSE stale

\* increments adds up the increments of the successful evm_increaseTime
\* requests, as the caller sent them, until an evm_revert succeeds: from
\* then on the offset is the one of the snapshot and the sum is not kept
NextIncrements(method, params, o) ==
    IF increments.reverted THEN increments
    ELSE IF method = "evm_revert" /\ o.result = Ok(BoolValue(TRUE))
    THEN [reverted |-> TRUE, sum |-> 0]
    ELSE IF method = "evm_increaseTime" /\ o.result.status = "ok"
    THEN [increments EXCEPT !.sum = @ + params[1].num]
    ELSE increments

\* the promise processRequest returned for the invocation has not settled:
\* an async function settles its promise when it returns or throws
Pending(f) == f.pc # "idle"

\* the invocation in slot t has run from where the frame f stood to its
\* next await or to its end, which left the node and the frame of r; at its
\* end the promise settles and the caller has the result
Advance(t, f, r) ==
    /\ Len(r.node.chain) <= MaxBlocks + 1
    /\ node' = r.node
    /\ IF r.frame.pc = "done"
       THEN \E o \in {Outcome(r.node, r.frame.calls, r.frame.result)} :
                /\ tasks' = [tasks EXCEPT ![t] = IdleFrame]
                /\ last' = [method |-> f.method, params |-> f.params]
                /\ before' = f.before
                /\ calls' = o.calls
                /\ result' = o.result
                /\ issued' = NextIssued(f.method, o)
                /\ marks' = NextMarks(f.method, f.params, o)
                /\ stale' = NextStale(f.method, f.params, o)
                /\ increments' = NextIncrements(f.method, f.params, o)
       ELSE /\ tasks' = [tasks EXCEPT ![t] = r.frame]
            /\ UNCHANGED <<last, before, calls, result, issued, marks,
                           stale, increments>>

\* processRequest(method, params) is called: the invocation takes the first
\* free slot and runs to its first await.  The requests are those that,
\* run alone, keep the chain and the snapshot ids within the bounds.
\* overlapped counts the calls made while the promise of another call was
\* pending.
Invoke(method, params, now) ==
    \E t \in Tasks :
        /\ last = Idle
        /\ tasks[t].pc = "idle"
        /\ \A u \in Tasks : u < t => tasks[u].pc # "idle"
        /\ \E overlaps \in {IF \E u \in Tasks : Pending(tasks[u])
                             THEN overlapped + 1 ELSE overlapped} :
               /\ overlaps <= MaxOverlaps
               /\ overlapped' = overlaps
        /\ \E r \in {processRequest(node, Frame(method, params, node), now)} :
               /\ \E o \in {Run(r.node, r.frame, now)} :
                      /\ Len(o.node.chain) <= MaxBlocks + 1
                      /\ Len(NextIssued(method, o)) <= MaxSnapshots
               /\ Advance(t, Frame(method, params, node), r)

\* the node call an invocation awaits has delivered: the invocation is
\* resumed, once the caller has taken the result of the invocation that
\* ended before
Resume ==
    \E t \in Tasks, now \in NowValues :
        /\ last = Idle
        /\ tasks[t].pc # "idle"
        /\ \E r \in {processRequest(node, tasks[t], now)} :
               Advance(t, tasks[t], r)
        /\ UNCHANGED overlapped

\* the requests that, run alone, leave the cumulative offset of the node
\* within the bounds: MaxBehind below 0 and maxOffset above
OffsetWithin(params, maxOffset) ==
    RunRequest(node, "evm_increaseTime", params, 0).node.timeIncrement
        \in (0 - MaxBehind)..maxOffset

IncreaseTime ==
    \E params \in IncreaseTimeParams :
        /\ OffsetWithin(params, MaxOffset)
        /\ Invoke("evm_increaseTime", params, 0)

IncreaseTimeSums ==
    \E params \in SumIncreaseTimeParams :
        /\ OffsetWithin(params, MaxTotal)
        /\ Invoke("evm_increaseTime", params, 0)

SetNextBlockTimestamp ==
    \E params \in NumberParams :
        Invoke("evm_setNextBlockTimestamp", params, 0)

Mine ==
    \E params \in NumberParams, now \in NowValues :
        Invoke("evm_mine", params, now)

MineMultiple ==
    \E params \in MineMultipleParams, now \in NowValues :
        Invoke("evm_mineMultiple", params, now)

SetNextBlockTimestampFew ==
    \E params \in FewNumberParams :
        Invoke("evm_setNextBlockTimestamp", params, 0)

MineFew ==
    \E params \in FewNumberParams, now \in NowValues :
        Invoke("evm_mine", params, now)

MineMultipleFew ==
    \E params \in FewMineMultipleParams, now \in NowValues :
        Invoke("evm_mineMultiple", params, now)

Revert ==
    \E params \in RevertParams : Invoke("evm_revert", params, 0)

TakeSnapshot ==
    \E params \in SnapshotParams :
        Invoke("evm_snapshot", params, 0)

UnknownMethod ==
    \E method \in UnknownMethods, params \in {<<>>, <<Num(0)>>} :
        Invoke(method, params, 0)

\* the caller takes the result.  Invoke and Resume wait for it: a result is
\* taken as soon as it is there.  Return changes neither the node nor an
\* invocation, so this orders nothing among the node calls.
Return ==
    /\ last # Idle
    /\ last' = Idle
    /\ before' = node
    /\ calls' = <<>>
    /\ result' = NoResult
    /\ UNCHANGED <<node, issued, marks, stale, increments, tasks, overlapped>>

\* the caller the module relies on: it calls processRequest only when it
\* has taken the result of its call before, so that no promise is pending
ClientWaits ==
    /\ last = Idle
    /\ \A t \in Tasks : ~Pending(tasks[t])

\* requests of all the methods, from a caller that waits
Next ==
    \/ Return
    \/ Resume
    \/ ClientWaits /\ IncreaseTime
    \/ ClientWaits /\ SetNextBlockTimestampFew
    \/ ClientWaits /\ MineFew
    \/ ClientWaits /\ MineMultipleFew
    \/ ClientWaits /\ Revert
    \/ ClientWaits /\ TakeSnapshot
    \/ ClientWaits /\ UnknownMethod

Spec == Init /\ [][Next]_vars

\* mining and pinning requests only, with every timestamp and every batch up
\* to the bounds, from a caller that waits
NextMining ==
    \/ Return
    \/ Resume
    \/ ClientWaits /\ SetNextBlockTimestamp
    \/ ClientWaits /\ Mine
    \/ ClientWaits /\ MineMultiple

SpecMining == Init /\ [][NextMining]_vars

\* time travel: increments that add up, and blocks mined in between, from a
\* caller that waits
NextTime ==
    \/ Return
    \/ Resume
    \/ ClientWaits /\ IncreaseTimeSums
    \/ ClientWaits /\ MineFew

SpecTime == Init /\ [][NextTime]_vars

\* between two requests the node develops a fault: after j more
\* mineEmptyBlock calls, one throws
Fault ==
    \E j \in 0..(MaxIterations - 1) :
        /\ last = Idle
        /\ \A t \in Tasks : tasks[t].pc = "idle"
        /\ node.failAfter = -1
        /\ node' = [node EXCEPT !.failAfter = j]
        /\ before' = node'
        /\ UNCHANGED <<last, calls, result, issued, marks, stale, increments,
                       tasks, overlapped>>

\* mining on a node that may fail, from a caller that waits
NextFailing ==
    \/ Return
    \/ Resume
    \/ Fault
    \/ ClientWaits /\ MineFew
    \/ ClientWaits /\ MineMultiple

SpecFailing == Init /\ [][NextFailing]_vars

\* the requests of a caller that does not wait: a few of each of the
\* methods that read the head block or the cumulative offset
OverlappingNumberParams == {<<>>, <<Num(BaseTime + 1)>>, <<Num(BaseTime + 2)>>}

OverlappingBatchParams ==
    {<<Num(1), Arr(Elems(<<BaseTime + 2>>))>>,
     <<Num(2), Arr(Elems(<<BaseTime + 1>>))>>,
     <<Num(2), Arr(Elems(<<BaseTime + 1, BaseTime + 2>>))>>}

IncreaseTimeOverlapping ==
    \E params \in {<<Num(d)>> : d \in IncrementValues} :
        /\ OffsetWithin(params, MaxTotal)
        /\ Invoke("evm_increaseTime", params, 0)

SetNextBlockTimestampOverlapping ==
    \E params \in OverlappingNumberParams \ {<<>>} :
        Invoke("evm_setNextBlockTimestamp", params, 0)

MineOverlapping ==
    \E params \in OverlappingNumberParams, now \in NowValues :
        Invoke("evm_mine", params, now)

MineMultipleOverlapping ==
    \E params \in OverlappingBatchParams, now \in NowValues :
        Invoke("evm_mineMultiple", params, now)

\* a caller that does not wait: processRequest is called whenever a slot is
\* free, whether or not the promise of another call is pending
NextAsync ==
    \/ Return
    \/ Resume
    \/ IncreaseTimeOverlapping
    \/ SetNextBlockTimestampOverlapping
    \/ MineOverlapping
    \/ MineMultipleOverlapping

SpecAsync == Init /\ [][NextAsync]_vars

\* the steps of the invocation f run alone on the node n: the node and the
\* frame after each
RECURSIVE Steps(_, _, _)
Steps(n, f, now) ==
    IF f.pc = "done" THEN {}
    ELSE LET r == processRequest(n, f, now)
         IN  {r} \cup Steps(r.node, r.frame, now)

----------------------------------------------------------------------------
(* Vocabulary of the properties *)

\* a request has been processed and its result not yet taken
Done == last # Idle

OpCalls(cs, op) == SelectSeq(cs, LAMBDA c : c.op = op)

Args(cs) == [i \in 1..Len(cs) |-> cs[i].arg]

ZeroQuantity == <<"0", "x", "0">>

StrictlyIncreasing(ts) ==
    \A i, j \in 1..Len(ts) : i < j => ts[i] < ts[j]

\* evm_mineMultiple([n]) or evm_mineMultiple([n, [t1..tk]]), t1..tk numbers
IsBatch(l) ==
    /\ l.method = "evm_mineMultiple"
    /\ Len(l.params) \in {1, 2}
    /\ l.params[1].type = "number"
    /\ Len(l.params) = 2 =>
         /\ l.params[2].type = "array"
         /\ \A i \in 1..Len(l.params[2].arr) :
              l.params[2].arr[i].type = "number"

BatchIterations(l) == l.params[1].num

BatchTimes(l) ==
    IF Len(l.params) = 2
    THEN [i \in 1..Len(l.params[2].arr) |-> l.params[2].arr[i].num]
    ELSE <<>>

\* method([t]) with a number t
IsTimed(l, method) ==
    /\ l.method = method
    /\ Len(l.params) = 1
    /\ l.params[1].type = "number"

\* the calls of cs that carry a timestamp to mine or to pin
ExplicitCalls(cs) ==
    {j \in 1..Len(cs) :
        \/ cs[j].op = "mineEmptyBlock" /\ cs[j].arg # 0
        \/ cs[j].op = "setNextBlockTimestamp"}

\* in the node calls cs of one invocation the head block is read at most
\* once and before every other call, and every timestamp mined or pinned
\* is greater than the timestamp that read delivered and than the
\* timestamps the invocation mined before it
HeadReadFirst(cs) ==
    /\ \A j \in 1..Len(cs) : cs[j].op = "getLatestBlock" => j = 1
    /\ \A j \in ExplicitCalls(cs) :
         /\ cs[1].op = "getLatestBlock"
         /\ cs[j].arg > cs[1].ret
         /\ \A i \in ExplicitCalls(cs) : i < j => cs[i].arg < cs[j].arg

\* the invocation in slot t stands, with the node, where it would stand had
\* it run alone from the node it found
RunsAlone(t) ==
    \E now \in NowValues :
        [node |-> node, frame |-> tasks[t]]
            \in Steps(tasks[t].before,
                      Frame(tasks[t].method, tasks[t].params,
                            tasks[t].before), now)

\* s is the decimal numeral of the natural number t
IsNumeralOf(s, t) ==
    /\ Len(s) >= 1
    /\ \A i \in 1..Len(s) : IsDecimalDigit(s[i])
    /\ (s[1] = "0" => Len(s) = 1)
    /\ DecimalValue(s) = t

\* s is the decimal string of the integer t: its numeral, after a minus
\* sign when t is negative
IsDecimalOf(s, t) ==
    IF t < 0
    THEN /\ Len(s) >= 2
         /\ s[1] = "-"
         /\ IsNumeralOf(Tail(s), 0 - t)
    ELSE IsNumeralOf(s, t)

----------------------------------------------------------------------------
(* Properties.  Each but C13 is about the request just processed, sent by  *)
(* a caller that waits: last and before are the request and the node as    *)
(* it found it, node, calls and result what it left.  C13 is about         *)
(* invocations that may overlap.                                           *)

\* C1: evm_mineMultiple([n, [t1..tk]]) with k >= 1 fails with InvalidInput
\* whenever k > n, or t1 is not after the head timestamp, or the timestamps
\* are not strictly increasing; then no mineEmptyBlock call is made and the
\* chain is as before.
C1_BatchRejectedWhole ==
    (/\ IsBatch(last)
     /\ Len(BatchTimes(last)) >= 1
     /\ \/ Len(BatchTimes(last)) > BatchIterations(last)
        \/ BatchTimes(last)[1] <= HeadTimestamp(before.chain)
        \/ ~StrictlyIncreasing(BatchTimes(last)))
    => (/\ result.status = "InvalidInput"
        /\ OpCalls(calls, "mineEmptyBlock") = <<>>
        /\ node.chain = before.chain)

\* a batch that fits the iterations and starts after the head, but is not
\* strictly increasing, has been rejected
C1_Witness ==
    /\ IsBatch(last)
    /\ Len(BatchTimes(last)) >= 2
    /\ Len(BatchTimes(last)) <= BatchIterations(last)
    /\ BatchTimes(last)[1] > HeadTimestamp(before.chain)
    /\ ~StrictlyIncreasing(BatchTimes(last))
    /\ result.status = "InvalidInput"
    /\ OpCalls(calls, "mineEmptyBlock") = <<>>
    /\ node = before

\* C2: a successful evm_mineMultiple with n > 0 iterations and k <= n
\* timestamps makes exactly n mineEmptyBlock calls, in index order, the
\* first k carrying t1..tk and the others the sentinel 0, makes no other
\* mutating call, and returns the zero quantity.
C2_BatchMinesInOrder ==
    (/\ IsBatch(last)
     /\ BatchIterations(last) > 0
     /\ Len(BatchTimes(last)) <= BatchIterations(last)
     /\ result.status = "ok")
    => (/\ Args(OpCalls(calls, "mineEmptyBlock"))
             = [i \in 1..BatchIterations(last) |->
                   IF i <= Len(BatchTimes(last))
                   THEN BatchTimes(last)[i] ELSE 0]
        /\ \A i \in 1..Len(calls) :
             calls[i].op \in {"getLatestBlock", "mineEmptyBlock"}
        /\ \A i, j \in 1..Len(calls) :
             (calls[i].op = "mineEmptyBlock" /\ i < j)
                 => calls[j].op = "mineEmptyBlock"
        /\ Len(node.chain) = Len(before.chain) + BatchIterations(last)
        /\ result.value = StringValue(ZeroQuantity))

\* a batch of two iterations with one timestamp has mined its two blocks
C2_Witness ==
    /\ IsBatch(last)
    /\ BatchIterations(last) = 2
    /\ Len(BatchTimes(last)) = 1
    /\ result.status = "ok"
    /\ Args(OpCalls(calls, "mineEmptyBlock")) = <<BatchTimes(last)[1], 0>>
    /\ Len(node.chain) = Len(before.chain) + 2

\* C3: evm_mineMultiple with iterations n <= 0 fails with InvalidInput,
\* whatever the timestamps, and mines no block.
C3_NoIterationsRejected ==
    (IsBatch(last) /\ BatchIterations(last) <= 0)
    => (/\ result.status = "InvalidInput"
        /\ OpCalls(calls, "mineEmptyBlock") = <<>>
        /\ node.chain = before.chain)

\* zero iterations without timestamps have been rejected
C3_Witness ==
    /\ IsBatch(last)
    /\ BatchIterations(last) = 0
    /\ BatchTimes(last) = <<>>
    /\ result.status = "InvalidInput"
    /\ calls = <<>>
    /\ node = before

\* C4: evm_setNextBlockTimestamp([t]) never mines; with t not after the head
\* timestamp it fails with InvalidInput, makes no setNextBlockTimestamp call
\* and leaves the pinned timestamp alone; with t after the head timestamp it
\* succeeds, the pinned timestamp is t and the result is t as a decimal
\* string.
C4_SetNextBlockTimestamp ==
    IsTimed(last, "evm_setNextBlockTimestamp")
    => LET t == last.params[1].num
           h == HeadTimestamp(before.chain)
       IN  /\ node.chain = before.chain
           /\ OpCalls(calls, "mineEmptyBlock") = <<>>
           /\ t <= h =>
                /\ result.status = "InvalidInput"
                /\ OpCalls(calls, "setNextBlockTimestamp") = <<>>
                /\ node.nextBlockTimestamp = before.nextBlockTimestamp
           /\ t > h =>
                /\ result.status = "ok"
                /\ Args(OpCalls(calls, "setNextBlockTimestamp")) = <<t>>
                /\ node.nextBlockTimestamp = t
                /\ result.value.type = "string"
                /\ IsDecimalOf(result.value.str, t)

\* a two-digit timestamp after the head has been pinned in place of another
C4_Witness ==
    /\ IsTimed(last, "evm_setNextBlockTimestamp")
    /\ last.params[1].num > HeadTimestamp(before.chain)
    /\ last.params[1].num >= 10
    /\ before.nextBlockTimestamp \notin {0, last.params[1].num}
    /\ result.status = "ok"
    /\ node.nextBlockTimestamp = last.params[1].num
    /\ IsDecimalOf(result.value.str, last.params[1].num)

\* C5: evm_mine([t]) with t # 0: with t not after the head timestamp it
\* fails with InvalidInput and makes no mineEmptyBlock call; with t after
\* the head timestamp it makes exactly one mineEmptyBlock call, carrying t,
\* the new head block has timestamp t, and the result is the zero quantity.
C5_MineAtTimestamp ==
    (IsTimed(last, "evm_mine") /\ last.params[1].num # 0)
    => LET t == last.params[1].num
           h == HeadTimestamp(before.chain)
       IN  /\ t <= h =>
                /\ result.status = "InvalidInput"
                /\ OpCalls(calls, "mineEmptyBlock") = <<>>
                /\ node.chain = before.chain
           /\ t > h =>
                /\ Args(OpCalls(calls, "mineEmptyBlock")) = <<t>>
                /\ node.chain = Append(before.chain, t)
                /\ result = Ok(StringValue(ZeroQuantity))

\* a block has been mined at a requested timestamp while another timestamp
\* was pinned
C5_Witness ==
    /\ IsTimed(last, "evm_mine")
    /\ last.params[1].num # 0
    /\ before.nextBlockTimestamp \notin {0, last.params[1].num}
    /\ result = Ok(StringValue(ZeroQuantity))
    /\ Args(OpCalls(calls, "mineEmptyBlock")) = <<last.params[1].num>>
    /\ node.chain = Append(before.chain, last.params[1].num)

\* C6: evm_mine([]) and evm_mine([0]) behave alike, whatever the head
\* timestamp: the head block is not read, exactly one mineEmptyBlock call is
\* made, carrying the sentinel 0, the result is the zero quantity, and the
\* other of the two params lists would have left the same node, calls and
\* result.
C6_MineDefaultsToSentinel ==
    (last.method = "evm_mine" /\ last.params \in {<<>>, <<Num(0)>>})
    => (/\ calls = <<Call("mineEmptyBlock", 0, 0)>>
        /\ result = Ok(StringValue(ZeroQuantity))
        /\ Len(node.chain) = Len(before.chain) + 1
        /\ \A params \in {<<>>, <<Num(0)>>} :
             \E now \in NowValues :
                RunRequest(before, "evm_mine", params, now)
                    = Outcome(node, calls, result))

\* evm_mine([]) has mined a block on a head with a timestamp greater than 0
C6_Witness ==
    /\ last.method = "evm_mine"
    /\ last.params = <<>>
    /\ Len(before.chain) >= 2
    /\ HeadTimestamp(before.chain) > 0
    /\ Len(node.chain) = Len(before.chain) + 1
    /\ calls = <<Call("mineEmptyBlock", 0, 0)>>
    /\ result = Ok(StringValue(ZeroQuantity))

\* C7: a request of a method outside the six supported ones fails with
\* MethodNotFound, makes no node call and leaves the node as it was.
C7_UnknownMethodRejected ==
    (Done /\ last.method \notin
                {"evm_increaseTime", "evm_setNextBlockTimestamp", "evm_mine",
                 "evm_mineMultiple", "evm_revert", "evm_snapshot"})
    => (/\ result.status = "MethodNotFound"
        /\ calls = <<>>
        /\ node = before)

\* evm_Mine has been rejected by a node that holds a snapshot
C7_Witness ==
    /\ last.method = "evm_Mine"
    /\ last.params = <<Num(0)>>
    /\ result.status = "MethodNotFound"
    /\ calls = <<>>
    /\ node = before
    /\ node.snapshots # <<>>

\* C8: evm_snapshot with a non-empty params list fails with InvalidInput
\* and takeSnapshot is not called, so no snapshot is created.
C8_SnapshotRejectsArguments ==
    (last.method = "evm_snapshot" /\ Len(last.params) > 0)
    => (/\ result.status = "InvalidInput"
        /\ OpCalls(calls, "takeSnapshot") = <<>>
        /\ node.snapshots = before.snapshots)

\* C9: every id evm_snapshot returns is greater than all the ids it has
\* returned before.
C9_SnapshotIdsIncrease ==
    \A i, j \in 1..Len(issued) : i < j => issued[i] < issued[j]

\* a second id has been returned after the first snapshot was reverted to
C9_Witness ==
    /\ last = [method |-> "evm_snapshot", params |-> <<>>]
    /\ result.status = "ok"
    /\ Len(issued) = 2
    /\ Len(node.snapshots) = 1
    /\ issued[2] >= 10

\* C10: when evm_snapshot returned id s with the chain ending in block B and
\* only successful evm_mine / evm_mineMultiple requests have followed,
\* evm_revert([s]) returns true and the chain is the one that ended in B.
C10_RevertRestoresHead ==
    \A i \in 1..Len(marks) :
        (Done /\ marks[i].reverted)
        => (/\ last.method = "evm_revert"
            /\ result = Ok(BoolValue(TRUE))
            /\ node.chain = marks[i].chain)

\* a snapshot has been reverted to after blocks were mined on it
C10_Witness ==
    /\ last.method = "evm_revert"
    /\ result = Ok(BoolValue(TRUE))
    /\ \E i \in 1..Len(marks) :
         /\ marks[i].reverted
         /\ marks[i].mined
         /\ node.chain = marks[i].chain
    /\ Len(before.chain) > Len(node.chain)

\* C11: once evm_revert has succeeded on an id s, evm_revert on an id that
\* was issued after s and before that revert returns false and leaves the
\* node as it was; every evm_revert with a valid id, stale or unknown
\* included, ends without error and returns the boolean the node returned.
C11_StaleRevertReturnsFalse ==
    (/\ last.method = "evm_revert"
     /\ Len(last.params) = 1
     /\ IsRpcQuantity(last.params[1]))
    => LET id == rpcQuantity(last.params[1])
       IN  /\ Len(calls) = 1
           /\ calls[1].op = "revertToSnapshot"
           /\ calls[1].arg = id
           /\ result = Ok(BoolValue(calls[1].ret = 1))
           /\ id \in stale =>
                /\ result = Ok(BoolValue(FALSE))
                /\ node = before

\* the second of two snapshots has been asked for after the first was
\* reverted to: false, and the node is as it was
C11_Witness ==
    /\ last.method = "evm_revert"
    /\ Len(last.params) = 1
    /\ IsRpcQuantity(last.params[1])
    /\ Len(issued) >= 2
    /\ rpcQuantity(last.params[1]) = issued[2]
    /\ issued[2] \in stale
    /\ result = Ok(BoolValue(FALSE))
    /\ node = before

\* C12: while no evm_revert has succeeded, evm_increaseTime([d]) makes one
\* increaseTime call, carrying d, the offset of the node grows by d, the
\* result is the decimal string of the sum of all the increments sent so
\* far, d included, and no block is mined: the chain is as before.
C12_IncreaseTimeReturnsTotal ==
    (IsTimed(last, "evm_increaseTime") /\ ~increments.reverted)
    => LET d == last.params[1].num
       IN  /\ Args(OpCalls(calls, "increaseTime")) = <<d>>
           /\ node.timeIncrement = before.timeIncrement + d
           /\ result.status = "ok"
           /\ result.value.type = "string"
           /\ IsDecimalOf(result.value.str, increments.sum)
           /\ OpCalls(calls, "mineEmptyBlock") = <<>>
           /\ node.chain = before.chain

\* evm_increaseTime([10]) on an offset of 5 has returned "15", with a block
\* mined before it
C12_Witness ==
    /\ last = [method |-> "evm_increaseTime", params |-> <<Num(10)>>]
    /\ before.timeIncrement = 5
    /\ increments.sum = 15
    /\ result = Ok(StringValue(<<"1", "5">>))
    /\ Len(node.chain) >= 2
    /\ node.chain = before.chain

\* C13 as stated: a request runs to completion before the next begins,
\* whatever the caller does: no two invocations of processRequest are in
\* flight at the same time, and every invocation in flight finds the node
\* as its own node calls have left it, so that it mines or pins on the
\* strength of a head block no other request has changed.
C13_AnyTwoInvocations ==
    /\ \A t, u \in Tasks :
         (t # u /\ Pending(tasks[t])) => ~Pending(tasks[u])
    /\ \A t \in Tasks : Pending(tasks[t]) => RunsAlone(t)

\* C13: whether or not invocations overlap, an invocation reads the head
\* block at most once, before any other node call, and every timestamp it
\* mines or pins is greater than the head timestamp it read and than the
\* timestamps it mined before; evm_mine([t]), t not 0, and
\* evm_setNextBlockTimestamp([t]) succeed exactly when t is greater than
\* the head timestamp they read, whatever the head has become since.
C13_MinesOnHeadRead ==
    /\ \A t \in Tasks : HeadReadFirst(tasks[t].calls)
    /\ HeadReadFirst(calls)
    /\ \A method \in {"evm_mine", "evm_setNextBlockTimestamp"} :
         (/\ IsTimed(last, method)
          /\ method = "evm_mine" => last.params[1].num # 0)
         => /\ Len(calls) >= 1
            /\ calls[1].op = "getLatestBlock"
            /\ result.status = "ok" <=> last.params[1].num > calls[1].ret
            /\ result.status # "ok" => result.status = "InvalidInput"

\* an invocation of evm_mine made while another was pending has read the
\* head block and has mined a timestamp greater than the one it read on a
\* head that the other invocation had moved to that timestamp since
C13_Witness ==
    \E t \in Tasks :
        /\ overlapped > 0
        /\ tasks[t].method = "evm_mine"
        /\ tasks[t].pc = "await103"
        /\ Len(tasks[t].calls) = 2
        /\ tasks[t].calls[1].op = "getLatestBlock"
        /\ tasks[t].calls[2].arg > tasks[t].calls[1].ret
        /\ Len(node.chain) >= 3
        /\ node.chain[Len(node.chain)] = tasks[t].calls[2].arg
        /\ node.chain[Len(node.chain) - 1] >= tasks[t].calls[2].arg

\* C14: every mineEmptyBlock call of an evm_mine or evm_mineMultiple
\* request that carries a timestamp other than 0 carries one greater than
\* the timestamp of the head block at the moment of the call (the head the
\* request found, or the block its call before mined), and the block that
\* call mines has that timestamp: along the chain it is greater than the
\* block before it.
C14_ExplicitTimestampsIncrease ==
    (Done /\ last.method \in {"evm_mine", "evm_mineMultiple"})
    => LET mined == OpCalls(calls, "mineEmptyBlock")
           base == Len(before.chain)
       IN  /\ Len(node.chain) = base + Len(mined)
           /\ SubSeq(node.chain, 1, base) = before.chain
           /\ \A j \in 1..Len(mined) :
                mined[j].arg # 0
                    => /\ mined[j].arg > node.chain[base + j - 1]
                       /\ node.chain[base + j] = mined[j].arg

\* a batch has mined two blocks at its two timestamps, the second on the
\* block the first call mined
C14_Witness ==
    /\ last.method = "evm_mineMultiple"
    /\ Len(OpCalls(calls, "mineEmptyBlock")) = 2
    /\ \A j \in 1..2 : OpCalls(calls, "mineEmptyBlock")[j].arg # 0
    /\ Len(node.chain) = Len(before.chain) + 2
    /\ node.chain[Len(node.chain) - 2] < node.chain[Len(node.chain) - 1]
    /\ node.chain[Len(node.chain) - 1] < node.chain[Len(node.chain)]

\* C15: when an evm_mineMultiple request with n iterations passes its
\* checks and the node's mineEmptyBlock call of iteration j < n throws,
\* the request ends with the node's error, not one of the module's; the
\* calls of the iterations before j have succeeded and their j blocks are
\* in the chain; the call that threw is the last call of the request.
C15_NodeFailureStopsBatch ==
    (/\ IsBatch(last)
     /\ BatchIterations(last) > 0
     /\ Len(BatchTimes(last)) <= BatchIterations(last)
     /\ Len(BatchTimes(last)) >= 1 =>
            /\ BatchTimes(last)[1] > HeadTimestamp(before.chain)
            /\ StrictlyIncreasing(BatchTimes(last))
     /\ before.failAfter \in 0..(BatchIterations(last) - 1))
    => LET j == before.failAfter
           mined == OpCalls(calls, "mineEmptyBlock")
       IN  /\ result = NodeError
           /\ Len(mined) = j + 1
           /\ \A i \in 1..(j + 1) :
                /\ mined[i].arg = IF i <= Len(BatchTimes(last))
                                  THEN BatchTimes(last)[i] ELSE 0
                /\ mined[i].ret = IF i <= j THEN 0 ELSE -1
           /\ calls[Len(calls)] = mined[j + 1]
           /\ Len(node.chain) = Len(before.chain) + j
           /\ SubSeq(node.chain, 1, Len(before.chain)) = before.chain
           /\ \A i \in 1..j :
                i <= Len(BatchTimes(last))
                    => node.chain[Len(before.chain) + i] = BatchTimes(last)[i]

\* the node threw in the second iteration of a batch: the first block, at
\* the first timestamp of the batch, is in the chain
C15_Witness ==
    /\ IsBatch(last)
    /\ BatchIterations(last) >= 2
    /\ Len(BatchTimes(last)) >= 1
    /\ before.failAfter = 1
    /\ result = NodeError
    /\ Len(OpCalls(calls, "mineEmptyBlock")) = 2
    /\ node.chain = Append(before.chain, BatchTimes(last)[1])

\* C16: evm_mineMultiple([n, ts]) with an element of ts that is not a
\* number fails with InvalidInput before any node call, and mines no block.
C16_NonNumericTimestampRejected ==
    (/\ last.method = "evm_mineMultiple"
     /\ Len(last.params) = 2
     /\ last.params[1].type = "number"
     /\ last.params[2].type = "array"
     /\ \E i \in 1..Len(last.params[2].arr) :
          last.params[2].arr[i].type # "number")
    => (/\ result.status = "InvalidInput"
        /\ calls = <<>>
        /\ node.chain = before.chain)

\* C17: evm_mineMultiple([]) is taken as evm_mineMultiple([0, []]): it
\* fails with InvalidInput, makes no node call (the head block is not read,
\* no block is mined) and leaves the node as it was, whereas evm_mine([])
\* makes one mineEmptyBlock call and the chain grows by one block.
C17_EmptyBatchRejected ==
    /\ (last.method = "evm_mineMultiple" /\ last.params = <<>>)
       => (/\ result.status = "InvalidInput"
           /\ calls = <<>>
           /\ node = before
           /\ _mineMultipleParams(last.params).args = <<Num(0), Arr(<<>>)>>
           /\ \A now \in NowValues :
                RunRequest(before, "evm_mineMultiple",
                           <<Num(0), Arr(<<>>)>>, now)
                    = Outcome(node, calls, result))
    /\ (last.method = "evm_mine" /\ last.params = <<>>)
       => (/\ result.status = "ok"
           /\ Len(OpCalls(calls, "mineEmptyBlock")) = 1
           /\ Len(node.chain) = Len(before.chain) + 1)

\* evm_mineMultiple([]) has been rejected on a chain on which a block was
\* mined before, and a timestamp is pinned
C17_Witness ==
    /\ last.method = "evm_mineMultiple"
    /\ last.params = <<>>
    /\ Len(before.chain) >= 2
    /\ before.nextBlockTimestamp # 0
    /\ result.status = "InvalidInput"
    /\ calls = <<>>
    /\ node = before

\* C18: on a head block with a timestamp of 0 or more, an evm_mineMultiple
\* request with timestamps t1..tk that is not rejected makes its first k
\* mineEmptyBlock calls with t1..tk, each greater than 0, and all its other
\* mineEmptyBlock calls with the sentinel 0: no timestamp of the caller
\* reaches the node as the sentinel.
C18_SentinelOnlyBeyondTimestamps ==
    (/\ IsBatch(last)
     /\ HeadTimestamp(before.chain) >= 0
     /\ result.status # "InvalidInput")
    => LET mined == OpCalls(calls, "mineEmptyBlock")
           k == Len(BatchTimes(last))
       IN  /\ Len(mined) >= k
           /\ \A i \in 1..Len(mined) :
                /\ i <= k => (mined[i].arg = BatchTimes(last)[i]
                              /\ mined[i].arg > 0)
                /\ i > k => mined[i].arg = 0

\* a batch of two iterations with one timestamp has passed that timestamp
\* and then the sentinel, while another timestamp was pinned
C18_Witness ==
    /\ IsBatch(last)
    /\ Len(BatchTimes(last)) = 1
    /\ before.nextBlockTimestamp \notin {0, BatchTimes(last)[1]}
    /\ result.status = "ok"
    /\ Len(OpCalls(calls, "mineEmptyBlock")) = 2
    /\ OpCalls(calls, "mineEmptyBlock")[1].arg > 0
    /\ OpCalls(calls, "mineEmptyBlock")[2].arg = 0

\* C19: evm_setNextBlockTimestamp([t2]) on a node whose head block has
\* timestamp h and on which an earlier evm_setNextBlockTimestamp([t1]) has
\* pinned t1, no block mined since, with h < t2 < t1: the request succeeds,
\* its last node call is setNextBlockTimestamp(t2), its only one, and t2
\* is pinned in place of t1.
C19_PinnedTimestampReplaced ==
    (/\ IsTimed(last, "evm_setNextBlockTimestamp")
     /\ HeadTimestamp(before.chain) < last.params[1].num
     /\ last.params[1].num < before.nextBlockTimestamp)
    => (/\ result = Ok(StringValue(toString(last.params[1].num)))
        /\ Args(OpCalls(calls, "setNextBlockTimestamp"))
               = <<last.params[1].num>>
        /\ calls[Len(calls)].op = "setNextBlockTimestamp"
        /\ node.nextBlockTimestamp = last.params[1].num
        /\ node.chain = before.chain)

\* a timestamp between the head's and the pinned one has been pinned
C19_Witness ==
    /\ IsTimed(last, "evm_setNextBlockTimestamp")
    /\ HeadTimestamp(before.chain) < last.params[1].num
    /\ last.params[1].num < before.nextBlockTimestamp
    /\ result.status = "ok"
    /\ node.nextBlockTimestamp = last.params[1].num

====
